---- MODULE Spec2Model ----
(***************************************************************************)
(* Subscriber lifecycle and frame fan-out of gst-mjpg (src/src/frames.rs). *)
(*                                                                         *)
(* Every request p calls Frames::stream() once, owns the FrameStream it    *)
(* gets back, polls it, drops it, and the drop spawns the task that runs   *)
(* Frames::subscriber_stopped().  A forwarding task per successful start() *)
(* pushes the frames of the capture source into the broadcast channel that *)
(* was the current one when it was spawned.  The handlers of                *)
(* src/src/http.rs route a request, and those of the stream and snapshot   *)
(* paths are the consumers of a FrameStream.                               *)
(***************************************************************************)
EXTENDS Integers, Sequences, FiniteSets, TLC

\* frames.rs:16
MAX_BUFFERED_FRAMES == 16

\* Bounds of the model: the requests of a behaviour, the frames the source
\* produces in a behaviour of Spec, and the frames it produces in a behaviour of
\* LagSpec beyond those LagInit starts with.
MaxStreams == 2
MaxFrames == 2
LagExtra == 2

Proc == 1 .. MaxStreams
\* Channel 0 is the placeholder of Frames::new; channel p is the one request p
\* creates when it is the first streamer.
Chan == 0 .. MaxStreams

\* A channel with twice the room.
CapacityDouble == 2 * MAX_BUFFERED_FRAMES

\* The capacity stream() and new() give broadcast::channel (already a power of two).
Capacity == MAX_BUFFERED_FRAMES

Slot == 0 .. (Capacity - 1)

VARIABLES
    pc,          \* position of each request / handle / release task
    lockOwner,   \* holder of Frames::inner (0: free)
    count,       \* FramesInner::count
    sender,      \* FramesInner::sender: the channel it sends to
    playing,     \* video.start() has returned Ok and video.stop() was not called since
    fwd,         \* per channel: the forwarding task holding a clone of its sender
    tail,        \* per channel: next position to be written
    buffer,      \* per channel: the ring of slots [pos, val, src]: the position,
                 \* the frame and the forwarding task that sent it
    chanOf,      \* per handle: the channel of its receiver (0: no receiver yet)
    cursor,      \* per handle: next position its receiver reads
    retry,       \* per handle: poll_next is between a lag and its retry
    pulled,      \* per channel: frames its forwarding task has taken from the source
    captured,    \* frames the capture source has produced so far
    bound,       \* the limits of this behaviour
    \* history of the calls made, for the properties
    startCalls, stopCalls, stopAt, startOk, firsts, starters, zeroings,
    epoch, epochOf, subAt, doneAt, got, eos, lags, floor, log, decs,
    \* the HTTP responder
    paths,       \* Paths: the configured stream and snapshot paths
    req,         \* per request: its path-and-query ("" before it arrives)
    resp,        \* per request: the response of its handler
    frameTs,     \* the timestamp of a frame handle_stream makes a part of
    partHeaders  \* the headers of that part

ctl == <<pc, lockOwner, count, sender, playing, fwd>>
chs == <<tail, buffer, chanOf, cursor, retry, pulled, captured>>
callHist == <<startCalls, stopCalls, stopAt, startOk, firsts, starters, zeroings, decs>>
subHist == <<epoch, epochOf, subAt, doneAt>>
rcvHist == <<got, eos, lags, floor, log>>
web == <<paths, req, resp>>
fmt == <<frameTs, partHeaders>>
vars == <<ctl, chs, bound, callHist, subHist, rcvHist, web, fmt>>

-----------------------------------------------------------------------------
\* The broadcast channel (tokio::sync::broadcast as frames.rs uses it).

\* broadcast::channel(MAX_BUFFERED_FRAMES): slot i starts with a position one
\* lap behind, so that a receiver at position i finds it empty.
NewBuffer == [i \in Slot |-> [pos |-> i - Capacity, val |-> 0, src |-> 0]]

SlotOf(pos) == pos % Capacity

\* The receivers of channel ch: created in stream(), gone when the FrameStream drops.
Receivers(ch) == {h \in Proc : chanOf[h] = ch /\ pc[h] \in {"s_start", "s_ret", "live"}}

\* The Sender handles of channel ch: FramesInner::sender and the clone the
\* forwarding task owns until foreach_frame finishes.
Closed(ch) == sender # ch /\ fwd[ch] # "running"

\* What the receiver of handle h finds at its cursor.
RecvState(h) ==
    LET ch == chanOf[h]
        s == buffer[ch][SlotOf(cursor[h])]
    IN  IF s.pos = cursor[h] THEN "ok"
        ELSE IF s.pos + Capacity = cursor[h]
             THEN (IF Closed(ch) THEN "closed" ELSE "empty")
             ELSE "lagged"

\* A lagged receiver that resumes at the newest position.
LagCursorNewest(t) == t - 1

\* Where a lagged receiver resumes: the oldest position still in the ring.
LagCursor(t) == t - Capacity

\* A receiver that does not move past the frame it yields.
NextCursorStuck(r, c, t) == IF r = "lagged" THEN LagCursor(t) ELSE c

\* The receiver's position after a poll that found r at position c, the tail at t.
NextCursor(r, c, t) ==
    IF r = "ok" THEN c + 1
    ELSE IF r = "lagged" THEN LagCursor(t)
    ELSE c

\* A new receiver that replays what the ring still holds.
SubscribeFromOldest(ch) == IF tail[ch] > Capacity THEN tail[ch] - Capacity ELSE 0

\* sender.subscribe(): a new receiver starts at the tail.
SubscribeCursor(ch) == tail[ch]

\* A send that waits while a receiver's backlog is full.
CanSendBounded(ch) == \A h \in Receivers(ch) : tail[ch] - cursor[h] < Capacity

\* sender.send() is synchronous and never waits for a receiver.
CanSend(ch) == TRUE

-----------------------------------------------------------------------------
\* Frames::stream and Frames::start

\* A test that also takes the first-streamer branch with one streamer.
IsFirstOrSecond(c) == c <= 1

\* if inner.count == 0
IsFirst(c) == c = 0

\* Requests are numbered in the order in which they take the lock.
MayEnter(p) ==
    /\ pc[p] = "idle"
    /\ \A q \in Proc : q < p => pc[q] # "idle"

\* stream(): inner.lock().await, then with count == 0: a new channel, its
\* receiver, count = 1
StreamFirst(p) ==
    /\ MayEnter(p)
    /\ lockOwner = 0
    /\ lockOwner' = p
    /\ IsFirst(count)
    /\ sender' = p
    /\ count' = 1
    /\ tail' = [tail EXCEPT ![p] = 0]
    /\ buffer' = [buffer EXCEPT ![p] = NewBuffer]
    /\ chanOf' = [chanOf EXCEPT ![p] = p]
    /\ cursor' = [cursor EXCEPT ![p] = 0]
    /\ pc' = [pc EXCEPT ![p] = "s_start"]
    /\ firsts' = firsts \cup {p}
    /\ epoch' = epoch + 1
    /\ epochOf' = [epochOf EXCEPT ![p] = epoch + 1]
    /\ subAt' = [subAt EXCEPT ![p] = 0]
    /\ UNCHANGED <<playing, fwd, retry, pulled, captured, bound, doneAt, rcvHist>>
    /\ UNCHANGED <<startCalls, stopCalls, stopAt, startOk, starters, zeroings, decs>>

\* A start() that spawns the forwarding task whatever video.start() returned.
StreamStartAlwaysSpawn(p) ==
    /\ pc[p] = "s_start"
    /\ \E ok \in BOOLEAN :
        /\ startOk' = ok
        /\ playing' = (ok \/ playing)
        /\ fwd' = [fwd EXCEPT ![sender] = "running"]
    /\ startCalls' = startCalls + 1
    /\ starters' = starters \cup {p}
    /\ pc' = [pc EXCEPT ![p] = "s_ret"]
    /\ UNCHANGED <<lockOwner, count, sender, chs, bound, subHist, rcvHist>>
    /\ UNCHANGED <<stopCalls, stopAt, firsts, zeroings, decs>>

\* start(): video.start(), and on success the forwarding task with a clone of
\* inner.sender
StreamStart(p) ==
    /\ pc[p] = "s_start"
    /\ \E ok \in BOOLEAN :
        /\ startOk' = ok
        /\ playing' = (ok \/ playing)
        /\ fwd' = IF ok THEN [fwd EXCEPT ![sender] = "running"] ELSE fwd
    /\ startCalls' = startCalls + 1
    /\ starters' = starters \cup {p}
    /\ pc' = [pc EXCEPT ![p] = "s_ret"]
    /\ UNCHANGED <<lockOwner, count, sender, chs, bound, subHist, rcvHist>>
    /\ UNCHANGED <<stopCalls, stopAt, firsts, zeroings, decs>>

\* A late joiner that makes a channel of its own instead of subscribing.
StreamJoinNewChannel(p) ==
    /\ MayEnter(p)
    /\ lockOwner = 0
    /\ lockOwner' = p
    /\ ~IsFirst(count)
    /\ count' = count + 1
    /\ sender' = p
    /\ tail' = [tail EXCEPT ![p] = 0]
    /\ buffer' = [buffer EXCEPT ![p] = NewBuffer]
    /\ chanOf' = [chanOf EXCEPT ![p] = p]
    /\ cursor' = [cursor EXCEPT ![p] = 0]
    /\ pc' = [pc EXCEPT ![p] = "s_ret"]
    /\ epochOf' = [epochOf EXCEPT ![p] = epoch]
    /\ subAt' = [subAt EXCEPT ![p] = pulled[sender]]
    /\ UNCHANGED <<playing, fwd, retry, pulled, captured>>
    /\ UNCHANGED <<bound, callHist, epoch, doneAt, rcvHist>>

\* A late joiner that goes on to start() as the first streamer does.
StreamJoinRestart(p) ==
    /\ MayEnter(p)
    /\ lockOwner = 0
    /\ lockOwner' = p
    /\ ~IsFirst(count)
    /\ count' = count + 1
    /\ chanOf' = [chanOf EXCEPT ![p] = sender]
    /\ cursor' = [cursor EXCEPT ![p] = SubscribeCursor(sender)]
    /\ pc' = [pc EXCEPT ![p] = "s_start"]
    /\ epochOf' = [epochOf EXCEPT ![p] = epoch]
    /\ subAt' = [subAt EXCEPT ![p] = pulled[sender]]
    /\ UNCHANGED <<sender, playing, fwd, tail, buffer, retry, pulled, captured>>
    /\ UNCHANGED <<bound, callHist, epoch, doneAt, rcvHist>>

\* stream(): inner.lock().await, then with count != 0: count += 1 and
\* inner.sender.subscribe()
StreamJoin(p) ==
    /\ MayEnter(p)
    /\ lockOwner = 0
    /\ lockOwner' = p
    /\ ~IsFirst(count)
    /\ count' = count + 1
    /\ chanOf' = [chanOf EXCEPT ![p] = sender]
    /\ cursor' = [cursor EXCEPT ![p] = SubscribeCursor(sender)]
    /\ pc' = [pc EXCEPT ![p] = "s_ret"]
    /\ epochOf' = [epochOf EXCEPT ![p] = epoch]
    /\ subAt' = [subAt EXCEPT ![p] = pulled[sender]]
    /\ UNCHANGED <<sender, playing, fwd, tail, buffer, retry, pulled, captured>>
    /\ UNCHANGED <<bound, callHist, epoch, doneAt, rcvHist>>

\* stream() returns the FrameStream; the guard goes out of scope
StreamReturn(p) ==
    /\ pc[p] = "s_ret"
    /\ lockOwner' = 0
    /\ pc' = [pc EXCEPT ![p] = "live"]
    /\ doneAt' = [doneAt EXCEPT ![p] = pulled[chanOf[p]]]
    /\ UNCHANGED <<count, sender, playing, fwd, chs, bound, callHist>>
    /\ UNCHANGED <<epoch, epochOf, subAt, rcvHist>>

-----------------------------------------------------------------------------
\* The forwarding task: foreach_frame with the closure of Frames::start

\* A forwarding task that sends to whatever inner.sender is at the time.
ForwardSendToCurrent(e) ==
    /\ fwd[e] = "running"
    /\ captured < bound.frames
    /\ captured' = captured + 1
    /\ pulled' = [pulled EXCEPT ![e] = pulled[e] + 1]
    /\ IF Receivers(sender) # {}
       THEN /\ buffer' = [buffer EXCEPT ![sender][SlotOf(tail[sender])] =
                             [pos |-> tail[sender], val |-> pulled[e] + 1, src |-> e]]
            /\ tail' = [tail EXCEPT ![sender] = tail[sender] + 1]
            /\ log' = [log EXCEPT ![sender] = Append(log[sender], pulled[e] + 1)]
       ELSE UNCHANGED <<buffer, tail, log>>
    /\ UNCHANGED <<ctl, chanOf, cursor, retry, bound, callHist, subHist, got, eos, lags, floor>>

\* One frame of the source, the task's k-th: sender.send((bytes, ts)) on the
\* clone of inner.sender the task was spawned with.  With no receiver the send
\* fails, the frame is lost and the error is logged.
ForwardSend(e) ==
    /\ fwd[e] = "running"
    /\ captured < bound.frames
    /\ CanSend(e)
    /\ captured' = captured + 1
    /\ pulled' = [pulled EXCEPT ![e] = pulled[e] + 1]
    /\ IF Receivers(e) # {}
       THEN /\ buffer' = [buffer EXCEPT ![e][SlotOf(tail[e])] =
                             [pos |-> tail[e], val |-> pulled[e] + 1, src |-> e]]
            /\ tail' = [tail EXCEPT ![e] = tail[e] + 1]
            /\ log' = [log EXCEPT ![e] = Append(log[e], pulled[e] + 1)]
            /\ floor' = [h \in Proc |->
                           IF h \in Receivers(e)
                              /\ tail[e] - cursor[h] >= MAX_BUFFERED_FRAMES
                           THEN log'[e][tail[e] + 1 - MAX_BUFFERED_FRAMES + 1]
                           ELSE floor[h]]
       ELSE UNCHANGED <<buffer, tail, log, floor>>
    /\ UNCHANGED <<ctl, chanOf, cursor, retry, bound, callHist, subHist, got, eos, lags>>

\* The frame sequence of the source ends; the task and its Sender clone go away.
ForwardEnd(e) ==
    /\ fwd[e] = "running"
    /\ fwd' = [fwd EXCEPT ![e] = "ended"]
    /\ UNCHANGED <<pc, lockOwner, count, sender, playing, chs, bound>>
    /\ UNCHANGED <<callHist, subHist, rcvHist>>

-----------------------------------------------------------------------------
\* impl Stream for FrameStream

\* poll_next(): by what the receiver finds,
\*   Ready(Some(Ok(stuff)))  the frame is yielded;
\*   Ready(Some(Err(lag)))   the receiver has skipped forward and poll_next
\*                           calls itself;
\*   Ready(None)             the end of the stream is yielded;
\*   Pending                 nothing is yielded.
PollNext(h) ==
    /\ pc[h] = "live"
    /\ LET r == RecvState(h) IN
        /\ cursor' = [cursor EXCEPT ![h] = NextCursor(r, cursor[h], tail[chanOf[h]])]
        /\ got' = IF r = "ok"
                  THEN [got EXCEPT ![h] = Append(got[h],
                          [f |-> buffer[chanOf[h]][SlotOf(cursor[h])].val,
                           floor |-> floor[h],
                           src |-> buffer[chanOf[h]][SlotOf(cursor[h])].src])]
                  ELSE got
        /\ retry' = [retry EXCEPT ![h] = (r = "lagged")]
        /\ lags' = IF r = "lagged" THEN [lags EXCEPT ![h] = lags[h] + 1] ELSE lags
        /\ eos' = IF r = "closed" THEN [eos EXCEPT ![h] = TRUE] ELSE eos
    /\ UNCHANGED <<ctl, tail, buffer, chanOf, pulled, captured, bound>>
    /\ UNCHANGED <<callHist, subHist, floor, log>>

-----------------------------------------------------------------------------
\* impl Drop for FrameStream and Frames::subscriber_stopped

\* A drop that spawns no release task.
DropNoRelease(h) ==
    /\ pc[h] = "live"
    /\ ~retry[h]
    /\ pc' = [pc EXCEPT ![h] = "done"]
    /\ cursor' = [cursor EXCEPT ![h] = 0]
    /\ got' = [got EXCEPT ![h] = <<>>]
    /\ lags' = [lags EXCEPT ![h] = 0]
    /\ floor' = [floor EXCEPT ![h] = 0]
    /\ eos' = [eos EXCEPT ![h] = FALSE]
    /\ chanOf' = [chanOf EXCEPT ![h] = 0]
    /\ epochOf' = [epochOf EXCEPT ![h] = 0]
    /\ subAt' = [subAt EXCEPT ![h] = 0]
    /\ doneAt' = [doneAt EXCEPT ![h] = 0]
    /\ UNCHANGED <<lockOwner, count, sender, playing, fwd, bound>>
    /\ UNCHANGED <<tail, buffer, retry, pulled, captured>>
    /\ UNCHANGED <<callHist, epoch, log>>

\* drop(): the release task is spawned, then the receiver and what it had
\* yielded go away with the FrameStream
Drop(h) ==
    /\ pc[h] = "live"
    /\ ~retry[h]
    /\ pc' = [pc EXCEPT ![h] = "r_wait"]
    /\ cursor' = [cursor EXCEPT ![h] = 0]
    /\ got' = [got EXCEPT ![h] = <<>>]
    /\ lags' = [lags EXCEPT ![h] = 0]
    /\ floor' = [floor EXCEPT ![h] = 0]
    /\ eos' = [eos EXCEPT ![h] = FALSE]
    /\ chanOf' = [chanOf EXCEPT ![h] = 0]
    /\ epochOf' = [epochOf EXCEPT ![h] = 0]
    /\ subAt' = [subAt EXCEPT ![h] = 0]
    /\ doneAt' = [doneAt EXCEPT ![h] = 0]
    /\ UNCHANGED <<lockOwner, count, sender, playing, fwd, bound>>
    /\ UNCHANGED <<tail, buffer, retry, pulled, captured>>
    /\ UNCHANGED <<callHist, epoch, log>>

\* A release that takes two off the count.
SaturatingSub2(c) == IF c <= 1 THEN 0 ELSE c - 2

\* inner.count.saturating_sub(1)
SaturatingSub1(c) == IF c = 0 THEN 0 ELSE c - 1

\* A test that also stops the video with one streamer left.
IsLastOrSecondLast(c) == c <= 1

\* A release that never finds itself the last one.
IsLastNever(c) == FALSE

\* if inner.count != 0 { return }
IsLast(c) == c = 0

\* A release that gives the lock back before it calls stop().
ReleaseDecUnlocked(h) ==
    /\ pc[h] = "r_wait"
    /\ lockOwner = 0
    /\ count' = SaturatingSub1(count)
    /\ decs' = [decs EXCEPT ![h] = decs[h] + (count - count')]
    /\ zeroings' = IF count > 0 /\ count' = 0 THEN zeroings + 1 ELSE zeroings
    /\ pc' = [pc EXCEPT ![h] = IF IsLast(count') THEN "r_stop" ELSE "done"]
    /\ lockOwner' = 0
    /\ UNCHANGED <<sender, playing, fwd, chs, bound, subHist, rcvHist>>
    /\ UNCHANGED <<startCalls, stopCalls, stopAt, startOk, firsts, starters>>

\* subscriber_stopped(): inner.lock().await, the decrement, and the return
\* when streamers remain
ReleaseDec(h) ==
    /\ pc[h] = "r_wait"
    /\ lockOwner = 0
    /\ count' = SaturatingSub1(count)
    /\ decs' = [decs EXCEPT ![h] = decs[h] + (count - count')]
    /\ zeroings' = IF count > 0 /\ count' = 0 THEN zeroings + 1 ELSE zeroings
    /\ IF IsLast(count')
       THEN /\ pc' = [pc EXCEPT ![h] = "r_stop"]
            /\ lockOwner' = h
       ELSE /\ pc' = [pc EXCEPT ![h] = "done"]
            /\ lockOwner' = 0
    /\ UNCHANGED <<sender, playing, fwd, chs, bound, subHist, rcvHist>>
    /\ UNCHANGED <<startCalls, stopCalls, stopAt, startOk, firsts, starters>>

\* A stop() that leaves the source running.
StopVideoNoEos(h) ==
    /\ pc[h] = "r_stop"
    /\ stopCalls' = stopCalls + 1
    /\ stopAt' = stopAt \cup {count}
    /\ lockOwner' = 0
    /\ pc' = [pc EXCEPT ![h] = "done"]
    /\ UNCHANGED <<count, sender, playing, fwd, chs, bound, subHist, rcvHist>>
    /\ UNCHANGED <<startCalls, startOk, firsts, starters, zeroings, decs>>

\* subscriber_stopped(): video.stop(), which sends EOS and returns Ok
StopVideo(h) ==
    /\ pc[h] = "r_stop"
    /\ playing' = FALSE
    /\ stopCalls' = stopCalls + 1
    /\ stopAt' = stopAt \cup {count}
    /\ lockOwner' = 0
    /\ pc' = [pc EXCEPT ![h] = "done"]
    /\ UNCHANGED <<count, sender, fwd, chs, bound, subHist, rcvHist>>
    /\ UNCHANGED <<startCalls, startOk, firsts, starters, zeroings, decs>>

-----------------------------------------------------------------------------
\* The HTTP responder (src/src/http.rs).  Text is a string, taken apart and put
\* together one character at a time.

\* The string s has the string t in it.
Contains(s, t) ==
    \E i \in 1 .. (Len(s) - Len(t) + 1) : SubSeq(s, i, i + Len(t) - 1) = t

\* {} of an unsigned integer: its decimal digits
RECURSIVE Dec(_)
Dec(n) ==
    IF n < 10 THEN SubSeq("0123456789", n + 1, n + 1)
    ELSE Dec(n \div 10) \o SubSeq("0123456789", (n % 10) + 1, (n % 10) + 1)

\* The digits d with zeros in front up to a width of w.
RECURSIVE ZeroPad(_, _)
ZeroPad(d, w) == IF Len(d) >= w THEN d ELSE ZeroPad("0" \o d, w)

\* Microseconds as six digits.
SixDigits(n) == ZeroPad(Dec(n), 6)

\* {:.06} of ts.subsec_micros(): a precision, which the formatting of an
\* integer does not use
Micros(n) == Dec(n)

\* format!("{}.{:.06}", ts.as_secs(), ts.subsec_micros())
FormatTimestamp(ts) == Dec(ts.secs) \o "." \o Micros(ts.micros)

\* buf.dts() that is None or out of range
NoTs == [some |-> FALSE, secs |-> 0, micros |-> 0]

\* The closure handle_stream maps over the frames: the headers of the part
PartHeaders(ts) ==
    <<[name |-> "Content-Type", value |-> "image/jpeg"]>>
    \o (IF ts.some
        THEN <<[name |-> "X-Timestamp", value |-> FormatTimestamp(ts)]>>
        ELSE <<>>)

\* {:?} of a str: in double quotes, with \ before a double quote or a backslash
RECURSIVE EscapeDebug(_)
EscapeDebug(t) ==
    IF t = "" THEN ""
    ELSE LET c == SubSeq(t, 1, 1)
         IN  (IF c = "\"" \/ c = "\\" THEN "\\" \o c ELSE c)
             \o EscapeDebug(SubSeq(t, 2, Len(t)))

\* A str in double quotes as it is.
DisplayFmt(t) == "\"" \o t \o "\""

DebugFmt(t) == "\"" \o EscapeDebug(t) \o "\""

\* A router that takes the path up to the query.
RouteByPrefix(path, cfg) ==
    IF path = "/" THEN "index"
    ELSE IF Contains(path, cfg.stream) THEN "stream"
    ELSE IF Contains(path, cfg.snapshot) THEN "snapshot"
    ELSE "notfound"

\* handle_request: the handler of a path-and-query
Route(path, cfg) ==
    IF path = "/" THEN "index"
    ELSE IF path = cfg.stream THEN "stream"
    ELSE IF path = cfg.snapshot THEN "snapshot"
    ELSE "notfound"

\* The handler request p went to.
Kind(p) == IF pc[p] = "idle" THEN "none" ELSE Route(req[p], paths)

NoResp == [status |-> 0, returned |-> FALSE]

\* index()
IndexResponse(cfg) ==
    [status |-> 200, returned |-> TRUE, ctype |-> "text/html",
     text |-> "<a href=\"" \o cfg.stream \o "\">start stream</a>"
              \o "<a href=\"" \o cfg.snapshot \o "\">get snapshot</a>"]

\* The 404 of handle_request
NotFoundResponse(path) ==
    [status |-> 404, returned |-> TRUE,
     text |-> "nothing configured for the path " \o DebugFmt(path)]

\* The response handle_stream returns; its body is the FrameStream, read as
\* the client takes the parts
StreamResponse ==
    [status |-> 200, returned |-> TRUE, ctype |-> "multipart/x-mixed-replace"]

\* What handle_snapshot makes of the first item of its FrameStream
SnapshotResponse(items) ==
    IF items # <<>>
    THEN [status |-> 200, returned |-> FALSE, ctype |-> "image/jpeg", frame |-> items[1].f]
    ELSE [status |-> 500, returned |-> FALSE, ctype |-> "text/plain",
          text |-> "server error: no frames from video source"]

\* The path-and-query of the requests.
RequestPaths == {"/", "/stream", "/snapshot", "/stream?fps=5", "/bogus", "/a\"b"}

\* handle_request: the index and the 404 are returned at once, and the
\* handlers of the stream and snapshot paths begin with frames.stream()
HandleRequest(p) ==
    /\ MayEnter(p)
    /\ \E path \in RequestPaths :
        /\ req' = [req EXCEPT ![p] = path]
        /\ \/ /\ Route(path, paths) = "index"
              /\ resp' = [resp EXCEPT ![p] = IndexResponse(paths)]
              /\ pc' = [pc EXCEPT ![p] = "replied"]
              /\ UNCHANGED <<lockOwner, count, sender, playing, fwd, chs>>
              /\ UNCHANGED <<callHist, subHist, rcvHist>>
           \/ /\ Route(path, paths) = "notfound"
              /\ resp' = [resp EXCEPT ![p] = NotFoundResponse(path)]
              /\ pc' = [pc EXCEPT ![p] = "replied"]
              /\ UNCHANGED <<lockOwner, count, sender, playing, fwd, chs>>
              /\ UNCHANGED <<callHist, subHist, rcvHist>>
           \/ /\ Route(path, paths) \in {"stream", "snapshot"}
              /\ StreamFirst(p)
              /\ UNCHANGED resp
           \/ /\ Route(path, paths) \in {"stream", "snapshot"}
              /\ StreamJoin(p)
              /\ UNCHANGED resp
    /\ UNCHANGED <<bound, paths, fmt>>

\* frames.stream() returns; handle_stream wraps the FrameStream into the body
\* and returns its response, handle_snapshot goes on to next()
HandlerStreamReturn(p) ==
    /\ StreamReturn(p)
    /\ resp' = IF Kind(p) = "stream" THEN [resp EXCEPT ![p] = StreamResponse] ELSE resp
    /\ UNCHANGED <<paths, req, fmt>>

\* The body of the stream response is polled for its next part, up to the end
\* of the stream; next() of handle_snapshot is polled up to its first item
HandlerPoll(h) ==
    /\ Kind(h) \in {"stream", "snapshot"}
    /\ ~eos[h]
    /\ Kind(h) = "snapshot" => got[h] = <<>>
    /\ PollNext(h)
    /\ UNCHANGED <<web, fmt>>

\* A handle_snapshot that keeps its FrameStream while it makes its response.
HandlerKeep(h) ==
    /\ Kind(h) = "snapshot"
    /\ pc[h] = "live"
    /\ resp[h].status = 0
    /\ got[h] # <<>>
    /\ resp' = [resp EXCEPT ![h] = SnapshotResponse(got[h])]
    /\ UNCHANGED <<ctl, chs, bound, callHist, subHist, rcvHist, paths, req, fmt>>

\* The FrameStream is dropped: the client of a stream goes away or its body has
\* ended; handle_snapshot has its first item (the temporary of the match is
\* dropped at the end of the let) or its client goes away
HandlerDrop(h) ==
    /\ Kind(h) \in {"stream", "snapshot"}
    /\ Drop(h)
    /\ resp' = IF Kind(h) = "snapshot" /\ (got[h] # <<>> \/ eos[h])
               THEN [resp EXCEPT ![h] = SnapshotResponse(got[h])]
               ELSE resp
    /\ UNCHANGED <<paths, req, fmt>>

\* handle_snapshot returns its response
SnapshotReturn(h) ==
    /\ Kind(h) = "snapshot"
    /\ resp[h].status # 0
    /\ ~resp[h].returned
    /\ resp' = [resp EXCEPT ![h].returned = TRUE]
    /\ UNCHANGED <<ctl, chs, bound, callHist, subHist, rcvHist, paths, req, fmt>>

\* The timestamps of a frame: none, or seconds and microseconds of the second.
TsInputs ==
    {NoTs} \cup
    {[some |-> TRUE, secs |-> s, micros |-> m] :
        s \in {0, 1, 75},
        m \in {0, 1, 9, 10, 33, 99, 100, 999, 1000, 9999, 10000, 33000, 99999,
               100000, 123456, 500000, 999999}}

\* handle_stream makes the part of a frame
FormatPart ==
    /\ partHeaders = <<>>
    /\ partHeaders' = PartHeaders(frameTs)
    /\ UNCHANGED <<ctl, chs, bound, callHist, subHist, rcvHist, web, frameTs>>

-----------------------------------------------------------------------------
\* Frames::new, before any request

\* The paths of a server started without --stream-path and --snapshot-path.
DefaultPaths == [stream |-> "/stream", snapshot |-> "/snapshot"]

\* The HTTP responder before any request, with the paths cfg.
WebInit(cfg) ==
    /\ paths = cfg
    /\ req = [p \in Proc |-> ""]
    /\ resp = [p \in Proc |-> NoResp]

\* No part in the making: a frame with the timestamp ts, and no headers yet.
FmtInput(ts) ==
    /\ frameTs = ts
    /\ partHeaders = <<>>

\* Frames::new
FramesNew ==
    /\ bound = [frames |-> MaxFrames]
    /\ pc = [p \in Proc |-> "idle"]
    /\ lockOwner = 0
    /\ count = 0
    /\ sender = 0
    /\ playing = FALSE
    /\ fwd = [c \in Chan |-> "none"]
    /\ tail = [c \in Chan |-> 0]
    /\ buffer = [c \in Chan |-> NewBuffer]
    /\ chanOf = [p \in Proc |-> 0]
    /\ cursor = [p \in Proc |-> 0]
    /\ retry = [p \in Proc |-> FALSE]
    /\ pulled = [c \in Chan |-> 0]
    /\ captured = 0
    /\ startCalls = 0
    /\ stopCalls = 0
    /\ stopAt = {}
    /\ startOk = FALSE
    /\ firsts = {}
    /\ starters = {}
    /\ zeroings = 0
    /\ epoch = 0
    /\ epochOf = [p \in Proc |-> 0]
    /\ subAt = [p \in Proc |-> 0]
    /\ doneAt = [p \in Proc |-> 0]
    /\ got = [p \in Proc |-> <<>>]
    /\ eos = [p \in Proc |-> FALSE]
    /\ lags = [p \in Proc |-> 0]
    /\ floor = [p \in Proc |-> 0]
    /\ log = [c \in Chan |-> <<>>]
    /\ decs = [p \in Proc |-> 0]

Init == FramesNew /\ WebInit(DefaultPaths) /\ FmtInput(NoTs)

\* The state Init reaches when request 1 has become the first streamer, start()
\* has succeeded, stream() has returned, and the forwarding task has sent
\* LagPrefill frames of which the handle has read none: one frame short of a
\* full ring.
LagPrefill == MAX_BUFFERED_FRAMES - 1

LagInit ==
    /\ WebInit(DefaultPaths)
    /\ FmtInput(NoTs)
    /\ bound = [frames |-> LagPrefill + LagExtra]
    /\ pc = [p \in Proc |-> IF p = 1 THEN "live" ELSE "idle"]
    /\ lockOwner = 0
    /\ count = 1
    /\ sender = 1
    /\ playing = TRUE
    /\ fwd = [c \in Chan |-> IF c = 1 THEN "running" ELSE "none"]
    /\ tail = [c \in Chan |-> IF c = 1 THEN LagPrefill ELSE 0]
    /\ buffer = [c \in Chan |->
                   IF c = 1
                   THEN [i \in Slot |-> IF i < LagPrefill
                                        THEN [pos |-> i, val |-> i + 1, src |-> 1]
                                        ELSE NewBuffer[i]]
                   ELSE NewBuffer]
    /\ chanOf = [p \in Proc |-> IF p = 1 THEN 1 ELSE 0]
    /\ cursor = [p \in Proc |-> 0]
    /\ retry = [p \in Proc |-> FALSE]
    /\ pulled = [c \in Chan |-> IF c = 1 THEN LagPrefill ELSE 0]
    /\ captured = LagPrefill
    /\ startCalls = 1
    /\ stopCalls = 0
    /\ stopAt = {}
    /\ startOk = TRUE
    /\ firsts = {1}
    /\ starters = {1}
    /\ zeroings = 0
    /\ epoch = 1
    /\ epochOf = [p \in Proc |-> IF p = 1 THEN 1 ELSE 0]
    /\ subAt = [p \in Proc |-> 0]
    /\ doneAt = [p \in Proc |-> 0]
    /\ got = [p \in Proc |-> <<>>]
    /\ eos = [p \in Proc |-> FALSE]
    /\ lags = [p \in Proc |-> 0]
    /\ floor = [p \in Proc |-> 0]
    /\ log = [c \in Chan |-> IF c = 1 THEN [i \in 1 .. LagPrefill |-> i] ELSE <<>>]
    /\ decs = [p \in Proc |-> 0]

\* The steps of Frames, its tasks and the owners of its FrameStreams.
Next ==
    /\ \/ \E p \in Proc : StreamFirst(p)
       \/ \E p \in Proc : StreamStart(p)
       \/ \E p \in Proc : StreamJoin(p)
       \/ \E p \in Proc : StreamReturn(p)
       \/ \E e \in Chan : ForwardSend(e)
       \/ \E e \in Chan : ForwardEnd(e)
       \/ \E h \in Proc : PollNext(h)
       \/ \E h \in Proc : Drop(h)
       \/ \E h \in Proc : ReleaseDec(h)
       \/ \E h \in Proc : StopVideo(h)
    /\ UNCHANGED <<web, fmt>>

\* The configurations of the server: the default paths, a stream path that is
\* the index path, and one path for both stream and snapshot.
Configs ==
    {DefaultPaths,
     [stream |-> "/", snapshot |-> "/snapshot"],
     [stream |-> "/stream", snapshot |-> "/stream"]}

\* Init with any of the configurations.
HttpInit == \E cfg \in Configs : FramesNew /\ WebInit(cfg) /\ FmtInput(NoTs)

\* The steps of the server: the requests go through handle_request, and the
\* FrameStreams are owned by handle_stream and handle_snapshot.
HttpNext ==
    \/ \E p \in Proc : HandleRequest(p)
    \/ \E p \in Proc : StreamStart(p) /\ UNCHANGED <<web, fmt>>
    \/ \E p \in Proc : HandlerStreamReturn(p)
    \/ \E e \in Chan : ForwardSend(e) /\ UNCHANGED <<web, fmt>>
    \/ \E e \in Chan : ForwardEnd(e) /\ UNCHANGED <<web, fmt>>
    \/ \E h \in Proc : HandlerPoll(h)
    \/ \E h \in Proc : HandlerDrop(h)
    \/ \E h \in Proc : SnapshotReturn(h)
    \/ \E h \in Proc : ReleaseDec(h) /\ UNCHANGED <<web, fmt>>
    \/ \E h \in Proc : StopVideo(h) /\ UNCHANGED <<web, fmt>>

\* One frame with any timestamp, made into a part.
FmtInit == \E ts \in TsInputs : FramesNew /\ WebInit(DefaultPaths) /\ FmtInput(ts)

\* Lifecycle: several requests and epochs, few frames.
Spec == Init /\ [][Next]_vars

\* Fan-out: enough frames to overflow the ring.
LagSpec == LagInit /\ [][Next]_vars

\* The runtime runs every spawned task and every request that can take a step;
\* the lock of tokio is fair; a consumer that holds a handle keeps polling it.
\* Nothing obliges the source to produce a frame or to end, nor a consumer to
\* drop its handle.
Fairness ==
    /\ \A p \in Proc : WF_vars(StreamStart(p) /\ UNCHANGED <<web, fmt>>)
    /\ \A p \in Proc : WF_vars(StreamReturn(p) /\ UNCHANGED <<web, fmt>>)
    /\ \A h \in Proc : WF_vars(PollNext(h) /\ UNCHANGED <<web, fmt>>)
    /\ \A h \in Proc : SF_vars(ReleaseDec(h) /\ UNCHANGED <<web, fmt>>)
    /\ \A h \in Proc : WF_vars(StopVideo(h) /\ UNCHANGED <<web, fmt>>)

FairSpec == Init /\ [][Next]_vars /\ Fairness

\* The server, its requests and their handlers.
HttpSpec == HttpInit /\ [][HttpNext]_vars

\* The handlers are scheduled as the tasks are: a handler that can return
\* does, a body and a next() that are awaited are polled, and handle_snapshot
\* drops its FrameStream once next() has given its item.  Nothing obliges a
\* client to go away.
HttpFairness ==
    /\ \A p \in Proc : WF_vars(StreamStart(p) /\ UNCHANGED <<web, fmt>>)
    /\ \A p \in Proc : WF_vars(HandlerStreamReturn(p))
    /\ \A h \in Proc : WF_vars(HandlerPoll(h))
    /\ \A h \in Proc : WF_vars(HandlerDrop(h) /\ Kind(h) = "snapshot" /\ (got[h] # <<>> \/ eos[h]))
    /\ \A h \in Proc : WF_vars(SnapshotReturn(h))
    /\ \A h \in Proc : SF_vars(ReleaseDec(h) /\ UNCHANGED <<web, fmt>>)
    /\ \A h \in Proc : WF_vars(StopVideo(h) /\ UNCHANGED <<web, fmt>>)

HttpFairSpec == HttpInit /\ [][HttpNext]_vars /\ HttpFairness

\* The part of one frame.
FmtSpec == FmtInit /\ [][FormatPart]_vars

-----------------------------------------------------------------------------
\* Properties

\* The handles that own a receiver.
Holding(h) == pc[h] \in {"s_start", "s_ret", "live"}

\* The frames handle h has yielded.
Yielded(h) == [i \in DOMAIN got[h] |-> got[h][i].f]

IsPrefix(a, b) == Len(a) <= Len(b) /\ \A i \in DOMAIN a : a[i] = b[i]

After(q, m) == SelectSeq(q, LAMBDA f : f > m)

\* C1: the stream() calls made while no streamer exists lead to exactly one
\* start(), made by the call that took the count from 0 to 1; the others only
\* add to the count and attach to the channel that call created.
C1_StartOncePerIdle ==
    /\ Cardinality(firsts) = zeroings + (IF count > 0 THEN 1 ELSE 0)
    /\ startCalls <= Cardinality(firsts)
    /\ starters \subseteq firsts
    /\ lockOwner = 0 => startCalls = Cardinality(firsts) /\ starters = firsts
    /\ \A h \in Proc : Holding(h) => chanOf[h] = sender /\ sender \in firsts
    /\ Cardinality({h \in Proc : Holding(h)}) <= count

C1_Witness ==
    /\ \A p \in 1 .. 2 : pc[p] = "live"
    /\ count = 2
    /\ zeroings = 0
    /\ startCalls = 1
    /\ starters = {1}

\* C2: stop() is called once for each interval in which the count is above 0,
\* in the critical section that brought the count to 0, and never while the
\* count is above 0.
C2_StopOncePerInterval ==
    /\ stopCalls <= zeroings
    /\ zeroings <= stopCalls + 1
    /\ lockOwner = 0 => stopCalls = zeroings
    /\ stopAt \subseteq {0}
    /\ \A h \in Proc : pc[h] = "r_stop" => count = 0 /\ lockOwner = h

C2_Witness == stopCalls = 2 /\ zeroings = 2 /\ lockOwner = 0

\* C3 as stated: with the lock free, the source is started exactly when the
\* count is above 0, even when start() fails.
C3_StartedIffCount == lockOwner = 0 => (playing <=> count > 0)

\* C3 as amended: with the lock free, the source is started exactly when the
\* count is above 0 and the start() of the current interval succeeded.
C3_StartedIffCountAndStartOk == lockOwner = 0 => (playing <=> (count > 0 /\ startOk))

C3_Witness == lockOwner = 0 /\ count > 0 /\ ~startOk /\ ~playing /\ startCalls > 0

\* C4: once the forwarding task of its channel has finished, a handle that is
\* still attached gets the end of the stream from a later poll.
C4_EndOfStreamReachesHandles ==
    \A h \in Proc :
        (pc[h] = "live" /\ fwd[chanOf[h]] = "ended") ~> (eos[h] \/ pc[h] # "live")

\* C5: a handle takes one off the count once: not before it is dropped, and
\* exactly once by the time its release task has run.
C5_DecrementOnce ==
    \A h \in Proc :
        /\ decs[h] <= 1
        /\ pc[h] \in {"idle", "s_start", "s_ret", "live", "r_wait"} => decs[h] = 0
        /\ pc[h] \in {"r_stop", "done"} => decs[h] = 1

C5_Witness == \A h \in 1 .. 2 : pc[h] = "done" /\ decs[h] = 1

\* C6 as stated: a handle yields no frame that was sent before its stream()
\* call returned.
C6_NoFrameFromBeforeReturn ==
    \A h \in Proc : \A i \in DOMAIN got[h] : got[h][i].f > doneAt[h]

\* C6 as amended: a handle yields no frame that was sent before stream()
\* created its receiver.
C6_NoFrameFromBeforeSubscribe ==
    \A h \in Proc : \A i \in DOMAIN got[h] : got[h][i].f > subAt[h]

C6_Witness == \E h \in Proc : subAt[h] > 0 /\ got[h] # <<>>

\* C7: what a handle yields is a strictly increasing selection of the frames
\* sent to its channel, also when the ring has overflowed.
C7_YieldsInOrder ==
    \A h \in Proc :
        /\ \A i, j \in DOMAIN got[h] : i < j => got[h][i].f < got[h][j].f
        /\ \A i \in DOMAIN got[h] :
              \E k \in DOMAIN log[chanOf[h]] : log[chanOf[h]][k] = got[h][i].f

C7_Witness == \E h \in Proc : lags[h] > 0 /\ Len(got[h]) >= 2

\* C8: after a frame was sent while a handle had MAX_BUFFERED_FRAMES unread
\* frames, the handle yields nothing older than the oldest frame the ring kept
\* at that send, and yields no frame twice.
C8_ForwardAfterOverflow ==
    \A h \in Proc :
        /\ \A i \in DOMAIN got[h] : got[h][i].f >= got[h][i].floor
        /\ \A i, j \in DOMAIN got[h] : i # j => got[h][i].f # got[h][j].f

C8_Witness ==
    \E h \in Proc : \E i \in DOMAIN got[h] :
        got[h][i].floor >= 2 /\ got[h][i].f = got[h][i].floor

\* C9: the forwarding task can always send, whatever the receivers have read,
\* and a handle that has not lagged has been given every frame sent to its
\* channel since it subscribed, up to where it has read.
C9_SlowReaderBlocksNobody ==
    /\ \A e \in Chan :
          fwd[e] = "running" /\ captured < bound.frames => ENABLED ForwardSend(e)
    /\ \A h \in Proc :
          pc[h] = "live" /\ lags[h] = 0 =>
              IsPrefix(Yielded(h), After(log[chanOf[h]], subAt[h]))

C9_Witness ==
    \E s, h \in Proc :
        /\ pc[s] = "live" /\ pc[h] = "live" /\ chanOf[s] = chanOf[h]
        /\ lags[s] > 0
        /\ lags[h] = 0 /\ Len(got[h]) >= 2
        /\ Yielded(h) = After(log[chanOf[h]], subAt[h])

\* C10: two handles of one epoch, neither of which has lagged, yield the same
\* frames from the moment both are attached: one has read a prefix of what the
\* other has read, and the same when both have read all there is.
C10_SameFrames ==
    \A a, b \in Proc :
        (/\ pc[a] = "live" /\ pc[b] = "live"
         /\ epochOf[a] = epochOf[b]
         /\ lags[a] = 0 /\ lags[b] = 0)
        => LET m == IF subAt[a] > subAt[b] THEN subAt[a] ELSE subAt[b]
               ya == After(Yielded(a), m)
               yb == After(Yielded(b), m)
           IN  /\ IsPrefix(ya, yb) \/ IsPrefix(yb, ya)
               /\ RecvState(a) = "empty" /\ RecvState(b) = "empty" => ya = yb

C10_Witness ==
    \E a, b \in Proc :
        /\ a # b /\ pc[a] = "live" /\ pc[b] = "live"
        /\ epochOf[a] = epochOf[b]
        /\ lags[a] = 0 /\ lags[b] = 0
        /\ Len(got[a]) > Len(got[b]) /\ Len(got[b]) >= 2
        /\ RecvState(a) = "empty" /\ RecvState(b) = "empty"

\* No request owns a FrameStream or is inside stream().
NoHandle == \A h \in Proc : ~Holding(h)

\* C11: under fair scheduling the release task of every dropped handle takes
\* its one off the count, and whenever no handle is left the count comes to 0
\* with stop() issued and the source no longer started, unless a new stream()
\* call arrives first.
C11_ReleaseCompletes ==
    /\ \A h \in Proc : (pc[h] = "r_wait") ~> (decs[h] = 1)
    /\ (NoHandle /\ (count > 0 \/ playing))
          ~> (\/ ~NoHandle
              \/ count = 0 /\ ~playing /\ stopCalls = zeroings /\ lockOwner = 0)
    /\ (\A h \in Proc : pc[h] \in {"r_wait", "r_stop", "done"})
          ~> (count = 0 /\ ~playing /\ stopCalls > 0 /\ \A h \in Proc : pc[h] = "done")

C11_Witness ==
    /\ \A h \in Proc : pc[h] = "done" /\ decs[h] = 1
    /\ count = 0 /\ ~playing /\ stopCalls > 0 /\ startCalls > 0

\* The start() of the current interval has been called and has failed.
StartFailed == count > 0 /\ startCalls = Cardinality(firsts) /\ ~startOk

\* C12: after a start() that failed on a 0 -> 1 transition, stream() goes on to
\* return its handle, the interval has no forwarding task and its channel no
\* frame, every handle of the interval has been given nothing (no frame, no
\* lag, no end of stream) and finds its receiver empty, and start() is called
\* no second time in the interval.
C12_FailedStartIsSilent ==
    /\ startCalls <= zeroings + 1
    /\ StartFailed =>
          /\ ~playing
          /\ fwd[sender] = "none"
          /\ tail[sender] = 0 /\ log[sender] = <<>>
          /\ startCalls = zeroings + 1
          /\ \A h \in Proc :
                /\ pc[h] # "s_start"
                /\ Holding(h) =>
                      /\ chanOf[h] = sender
                      /\ got[h] = <<>> /\ ~eos[h] /\ lags[h] = 0
                      /\ RecvState(h) = "empty"
                /\ pc[h] = "s_ret" => ENABLED StreamReturn(h)

C12_Witness ==
    /\ StartFailed
    /\ \A h \in 1 .. 2 : pc[h] = "live" /\ got[h] = <<>>
    /\ count = 2
    /\ firsts = {1}

\* The FrameStream of request h has been dropped and its release task spawned.
Dropped(h) == pc[h] \in {"r_wait", "r_stop", "done"}

\* C13 as stated: a snapshot response that has been returned carries the first
\* frame of the source, and the count has been decremented for its handle.
C13_SnapshotReleasedBeforeReturn ==
    \A h \in Proc :
        (Kind(h) = "snapshot" /\ resp[h].status = 200 /\ resp[h].returned) =>
            /\ h \in firsts => resp[h].frame = 1
            /\ decs[h] = 1

\* C13 as amended: handle_snapshot reads one frame and no more, the first sent
\* to its channel since it subscribed (f1 of the source for the request that
\* started it); by the time its response exists its FrameStream has been
\* dropped and the release task spawned, and that task takes nothing off the
\* count before the drop and one off after it, before or after the return.
C13_SnapshotDroppedBeforeReturn ==
    \A h \in Proc :
        Kind(h) = "snapshot" =>
            /\ Holding(h) =>
                  /\ resp[h] = NoResp /\ decs[h] = 0
                  /\ Len(got[h]) <= 1
                  /\ got[h] # <<>> =>
                        /\ got[h][1].f = After(log[chanOf[h]], subAt[h])[1]
                        /\ h \in firsts => got[h][1].f = 1
            /\ resp[h].status = 200 =>
                  /\ Dropped(h)
                  /\ resp[h].ctype = "image/jpeg"
                  /\ h \in firsts => resp[h].frame = 1
            /\ resp[h].returned => Dropped(h) /\ resp[h].status \in {200, 500}

C13_Witness ==
    \E h \in Proc :
        /\ Kind(h) = "snapshot" /\ h \in firsts
        /\ resp[h].status = 200 /\ resp[h].returned /\ resp[h].frame = 1
        /\ pc[h] = "r_wait" /\ decs[h] = 0 /\ count = 1
        /\ captured = bound.frames /\ fwd[sender] = "ended"

\* The task that fed the channel of handle h has finished and h has read all
\* that was sent.
SourceEnded(h) ==
    /\ pc[h] = "live"
    /\ fwd[chanOf[h]] = "ended"
    /\ cursor[h] = tail[chanOf[h]]

\* C14: when the source has come to its end before a frame reached the handle
\* of a snapshot request, the handler returns the 500 response that says "no
\* frames from video source", unless its client has gone away.
C14_SnapshotEndsWith500 ==
    \A h \in Proc :
        (Kind(h) = "snapshot" /\ SourceEnded(h) /\ got[h] = <<>>)
            ~> (\/ /\ resp[h].status = 500 /\ resp[h].returned
                   /\ resp[h].text = "server error: no frames from video source"
                \/ Dropped(h) /\ resp[h].status = 0)

\* The parts handle_stream has put into the body of request h, and the end of
\* that body.
Parts(h) == [i \in DOMAIN got[h] |-> [ctype |-> "image/jpeg", body |-> got[h][i].f]]

BodyEnded(h) == eos[h]

\* C15: the body of a stream response has one image/jpeg part for each frame
\* its handle has yielded, in that order, the request subscribes once, and when
\* the source has come to its end and its frames are read the body ends,
\* unless its client has gone away.
C15_StreamBodyEnds ==
    /\ [](\A h \in Proc :
            Kind(h) = "stream" /\ pc[h] = "live" =>
                /\ resp[h] = StreamResponse
                /\ Len(Parts(h)) = Len(got[h])
                /\ \A i \in DOMAIN got[h] :
                      Parts(h)[i].body = got[h][i].f /\ Parts(h)[i].ctype = "image/jpeg")
    /\ \A h \in Proc :
          (Kind(h) = "stream" /\ SourceEnded(h)) ~> (BodyEnded(h) \/ Dropped(h))

\* C16: the part of a frame with a timestamp has the header X-Timestamp with
\* the whole seconds, a dot and the microseconds of the second as six digits,
\* zeros in front; the part of a frame without a timestamp has no such header.
C16_TimestampSixDigits ==
    partHeaders # <<>> =>
        /\ partHeaders[1] = [name |-> "Content-Type", value |-> "image/jpeg"]
        /\ IF frameTs.some
           THEN /\ Len(partHeaders) = 2
                /\ partHeaders[2].name = "X-Timestamp"
                /\ partHeaders[2].value =
                      Dec(frameTs.secs) \o "." \o SixDigits(frameTs.micros)
           ELSE Len(partHeaders) = 1

\* A request that has gone through handle_request.
Arrived(p) == pc[p] # "idle"

\* The request went to the handler of a FrameStream: it is in stream() or past it.
Subscribed(p) == pc[p] \in {"s_start", "s_ret", "live", "r_wait", "r_stop", "done"}

\* The requests routed to the index, the stream handler, the snapshot handler
\* and the 404, by exact match of the path-and-query in that order.
ToIndex(p) == req[p] = "/"
ToStream(p) == ~ToIndex(p) /\ req[p] = paths.stream
ToSnapshot(p) == ~ToIndex(p) /\ ~ToStream(p) /\ req[p] = paths.snapshot
ToNotFound(p) == ~ToIndex(p) /\ ~ToStream(p) /\ ~ToSnapshot(p)

\* What the handlers leave of a request, by the handler exact match gives it.
RoutedExactly ==
    \A p \in Proc :
        Arrived(p) =>
            /\ ToIndex(p) =>
                  pc[p] = "replied" /\ resp[p].status = 200 /\ resp[p].ctype = "text/html"
            /\ ToStream(p) =>
                  /\ Subscribed(p)
                  /\ resp[p].status # 0 => resp[p] = StreamResponse
                  /\ pc[p] \notin {"s_start", "s_ret"} => resp[p] = StreamResponse
            /\ ToSnapshot(p) =>
                  /\ Subscribed(p)
                  /\ resp[p].status # 0 => resp[p].ctype \in {"image/jpeg", "text/plain"}
                  /\ Holding(p) => resp[p] = NoResp
            /\ ToNotFound(p) =>
                  /\ pc[p] = "replied"
                  /\ resp[p].status = 404 /\ resp[p].returned
                  /\ chanOf[p] = 0 /\ decs[p] = 0 /\ p \notin firsts

\* The subscriptions made: one for each request in or past stream().
NoOtherSubscription ==
    /\ count <= Cardinality({p \in Proc : Subscribed(p)})
    /\ count = Cardinality({p \in Proc : pc[p] \in {"s_start", "s_ret", "live", "r_wait"}})

\* C17 as stated: routing is by exact match in the order index, stream,
\* snapshot; any other path-and-query gets a 404 whose body has the path in it
\* as it is, and makes no subscription.
C17_NotFoundNamesPath ==
    /\ RoutedExactly
    /\ NoOtherSubscription
    /\ \A p \in Proc :
          Arrived(p) /\ ToNotFound(p) => Contains(resp[p].text, req[p])

\* C17 as amended: the body of the 404 has the path as {:?} writes it, in
\* double quotes with a backslash before each double quote and backslash of
\* the path: the path as it is when it has neither.
C17_NotFoundNamesEscapedPath ==
    /\ RoutedExactly
    /\ NoOtherSubscription
    /\ \A p \in Proc :
          Arrived(p) /\ ToNotFound(p) =>
              /\ resp[p].text = "nothing configured for the path \"" \o EscapeDebug(req[p]) \o "\""
              /\ EscapeDebug(req[p]) = req[p] => Contains(resp[p].text, req[p])
              /\ ~Contains(req[p], "\"") /\ ~Contains(req[p], "\\") => EscapeDebug(req[p]) = req[p]

C17_Witness ==
    /\ paths = DefaultPaths
    /\ req = <<"/bogus", "/a\"b">>
    /\ \A p \in 1 .. 2 : pc[p] = "replied" /\ resp[p].status = 404
    /\ Contains(resp[1].text, "/bogus")
    /\ resp[2].text = "nothing configured for the path \"/a\\\"b\""
    /\ count = 0 /\ startCalls = 0

\* The oldest and the newest frame in the ring of channel ch.
OldestIn(ch) == log[ch][tail[ch] - Capacity + 1]
NewestIn(ch) == log[ch][tail[ch]]

\* A poll of handle h that finds its position overwritten yields nothing to
\* the consumer, neither an item nor the end of the stream, and leaves
\* poll_next about to read again; and that read finds a frame or a further lag.
LagIsSilent ==
    /\ [](\A h \in Proc :
            retry[h] => pc[h] = "live" /\ ~eos[h] /\ RecvState(h) \in {"ok", "lagged"})
    /\ [][\A h \in Proc :
            (pc[h] = "live" /\ RecvState(h) = "lagged" /\ lags'[h] # lags[h]) =>
                got'[h] = got[h] /\ eos'[h] = eos[h] /\ retry'[h]]_vars

\* C18 as stated: a lag is not surfaced, and the item the retry yields is the
\* newest frame of the channel.
C18_LagResumesAtNewest ==
    /\ LagIsSilent
    /\ [][\A h \in Proc :
            (retry[h] /\ got'[h] # got[h]) =>
                got'[h][Len(got'[h])].f = NewestIn(chanOf[h])]_vars

\* C18 as amended: a lag is not surfaced, and the item the retry yields is the
\* oldest frame the ring of the channel still holds.
C18_LagResumesAtOldest ==
    /\ LagIsSilent
    /\ [][\A h \in Proc :
            (retry[h] /\ got'[h] # got[h]) =>
                got'[h][Len(got'[h])].f = OldestIn(chanOf[h])]_vars

C18_Witness ==
    \E h \in Proc :
        /\ pc[h] = "live" /\ lags[h] = 1 /\ ~retry[h]
        /\ Len(got[h]) = 1
        /\ got[h][1].f = OldestIn(chanOf[h])
        /\ got[h][1].f < NewestIn(chanOf[h])
        /\ tail[chanOf[h]] > MAX_BUFFERED_FRAMES

\* The source, the channel of the epoch and its forwarding tasks are as they were.
SourceUntouched ==
    UNCHANGED <<sender, playing, fwd, startCalls, stopCalls, epoch, tail, buffer, pulled>>

\* C19: a stream() call that takes the lock with the count at 1 or more adds
\* one to the count, goes to its return without start(), and until it has
\* returned leaves the source, the channel and the tasks alone; a release that
\* leaves the count above 0 takes one off and ends there, without stop().  The
\* calls that go on to start() and to stop() are those that find the count 0
\* and that bring it to 0.
C19_JoinAndReleaseOnlyCount ==
    [][\A p \in Proc :
        /\ (pc[p] = "idle" /\ pc'[p] # "idle" /\ count >= 1) =>
              count' = count + 1 /\ pc'[p] = "s_ret" /\ SourceUntouched
        /\ (pc[p] = "s_ret" /\ pc'[p] # "s_ret") =>
              count' = count /\ pc'[p] = "live" /\ SourceUntouched
        /\ (pc[p] = "r_wait" /\ pc'[p] # "r_wait" /\ count >= 2) =>
              count' = count - 1 /\ pc'[p] = "done" /\ SourceUntouched
        /\ (pc[p] = "idle" /\ pc'[p] = "s_start") => count = 0
        /\ (pc[p] = "r_wait" /\ pc'[p] = "r_stop") => count' = 0
      ]_vars

C19_Witness ==
    /\ pc[1] = "done" /\ decs[1] = 1
    /\ pc[2] = "live" /\ epochOf[2] = 1
    /\ count = 1 /\ sender = 1
    /\ startCalls = 1 /\ stopCalls = 0 /\ playing

\* Request or release task p is at its call of video.start() or video.stop().
InSourceCall(p) == pc[p] \in {"s_start", "r_stop"}

\* C20: at most one task is at a call of start() or stop() at a time and it
\* holds the lock; the calls alternate, start() first: start() is called when
\* as many stop() as start() calls have been made, and stop() when one more
\* start() than stop() has been made.
C20_SourceCallsSerialized ==
    /\ [](/\ Cardinality({p \in Proc : InSourceCall(p)}) <= 1
          /\ \A p \in Proc : InSourceCall(p) => lockOwner = p
          /\ stopCalls <= startCalls /\ startCalls <= stopCalls + 1)
    /\ [][/\ startCalls' # startCalls =>
                /\ startCalls = stopCalls /\ startCalls' = startCalls + 1
                /\ stopCalls' = stopCalls
                /\ lockOwner # 0 /\ pc[lockOwner] = "s_start" /\ lockOwner' = lockOwner
          /\ stopCalls' # stopCalls =>
                /\ startCalls = stopCalls + 1 /\ stopCalls' = stopCalls + 1
                /\ startCalls' = startCalls
                /\ lockOwner # 0 /\ pc[lockOwner] = "r_stop"
         ]_vars

C20_Witness ==
    /\ startCalls = 2 /\ stopCalls = 1
    /\ pc[1] = "done"
    /\ pc[2] = "s_ret" /\ lockOwner = 2

\* The FrameStreams that exist, the stream() calls that have counted theirs and
\* not returned it yet, and the release tasks that have not taken theirs off.
LiveHandles == {h \in Proc : pc[h] = "live"}
InStream == {h \in Proc : pc[h] \in {"s_start", "s_ret"}}
PendingReleases == {h \in Proc : pc[h] = "r_wait"}

\* What follows for the count: it is 0 only with no FrameStream alive, and a
\* release task never finds it 0.
CountCoversHandles ==
    /\ count = 0 => LiveHandles = {}
    /\ \A h \in Proc : pc[h] = "r_wait" => count >= 1 /\ SaturatingSub1(count) = count - 1

\* C21 as stated: in every state the count is the number of FrameStreams alive
\* plus the number of release tasks spawned that have not decremented; so it
\* is 0 only with no FrameStream alive, and saturating_sub never meets a 0.
C21_CountIsHandlesPlusReleases ==
    /\ count = Cardinality(LiveHandles) + Cardinality(PendingReleases)
    /\ CountCoversHandles

\* C21 as amended: that holds in every state in which the lock is free; in the
\* others the count has in addition the one of the stream() call that holds
\* the lock and has not returned its FrameStream yet.
C21_CountIsHandlesPlusReleasesUnlocked ==
    /\ count = Cardinality(LiveHandles) + Cardinality(InStream) + Cardinality(PendingReleases)
    /\ Cardinality(InStream) <= 1
    /\ \A h \in InStream : lockOwner = h
    /\ lockOwner = 0 => count = Cardinality(LiveHandles) + Cardinality(PendingReleases)
    /\ CountCoversHandles

C21_Witness ==
    /\ lockOwner = 0
    /\ count = 2
    /\ pc[1] = "r_wait" /\ decs[1] = 0
    /\ pc[2] = "live"

\* C22: the frames of a forwarding task go to the channel that was the current
\* one when the task was spawned and to no other, and a handle is given only
\* frames sent by the task of its own channel, the channel of its epoch: a
\* task that outlives its epoch gives nothing to the handles of a later one.
C22_FramesStayInTheirEpoch ==
    /\ \A c \in Chan : \A i \in Slot :
          buffer[c][i].pos >= 0 => buffer[c][i].src = c
    /\ \A c \in Chan : Len(log[c]) <= pulled[c]
    /\ \A h \in Proc :
          Holding(h) =>
              /\ chanOf[h] = sender
              /\ \A i \in DOMAIN got[h] :
                    got[h][i].src = chanOf[h] /\ got[h][i].f <= pulled[chanOf[h]]

C22_Witness ==
    /\ sender = 2 /\ epoch = 2
    /\ fwd[1] = "running" /\ fwd[2] = "running"
    /\ pulled[1] = 1 /\ tail[1] = 0
    /\ pulled[2] = 1
    /\ pc[2] = "live" /\ Len(got[2]) = 1 /\ got[2][1].src = 2

====
